---------------------------- MODULE Spec2Model ----------------------------
(***************************************************************************)
(* Model of src/internship_scraper.py: the per-employer scan of main, the  *)
(* provider query of search_company_jobs, the row filter of filter_jobs    *)
(* and the text block written by write_job_to_file.                        *)
(*                                                                         *)
(* Text is a sequence of one-character strings, so that substring search,  *)
(* case folding and word boundaries are computed, not assumed.  A field of *)
(* a listing is an option: <<>> when the provider left it absent (None or  *)
(* NaN in the data frame), <<v>> when it holds the value v.                *)
(***************************************************************************)
EXTENDS Integers, Sequences, FiniteSets, TLC

(***************************************************************************)
(* Text primitives (Python str and the re module, as used by the source).  *)
(***************************************************************************)
Uppers ==
    <<"A", "B", "C", "D", "E", "F", "G", "H", "I", "J", "K", "L", "M",
      "N", "O", "P", "Q", "R", "S", "T", "U", "V", "W", "X", "Y", "Z">>

Lowers ==
    <<"a", "b", "c", "d", "e", "f", "g", "h", "i", "j", "k", "l", "m",
      "n", "o", "p", "q", "r", "s", "t", "u", "v", "w", "x", "y", "z">>

Digits ==
    <<"0", "1", "2", "3", "4", "5", "6", "7", "8", "9">>

Range(s) ==
    {s[n] : n \in DOMAIN s}

\* the lower-case letter of each upper-case letter
ToLower ==
    [ch \in Range(Uppers) |-> Lowers[CHOOSE n \in DOMAIN Uppers : Uppers[n] = ch]]

\* str.lower() on one character
LowerChar(ch) ==
    IF ch \in DOMAIN ToLower THEN ToLower[ch] ELSE ch

\* str.lower()
LowerStr(s) ==
    [n \in 1..Len(s) |-> LowerChar(s[n])]

\* sub occurs in s at offset p (0-based), compared character by character
MatchAt(s, sub, p) ==
    /\ p + Len(sub) <= Len(s)
    /\ \A q \in 1..Len(sub) : s[p + q] = sub[q]

\* Python's `sub in s`
Contains(s, sub) ==
    \E p \in 0..Len(s) : MatchAt(s, sub, p)

\* s[:n]
Prefix(s, n) ==
    SubSeq(s, 1, IF Len(s) < n THEN Len(s) ELSE n)

(***************************************************************************)
(* Option values: what pandas holds for a missing cell.                    *)
(***************************************************************************)
None ==
    <<>>

Some(v) ==
    <<v>>

\* pd.notna(x)
NotNa(x) ==
    x # <<>>

Val(x) ==
    x[1]

(***************************************************************************)
(* Literals of the source.                                                 *)
(***************************************************************************)
remote_keywords ==
    << <<"r", "e", "m", "o", "t", "e">>,
       <<"h", "y", "b", "r", "i", "d">>,
       <<"v", "i", "r", "t", "u", "a", "l">>,
       <<"w", "o", "r", "k", " ", "f", "r", "o", "m", " ", "h", "o", "m", "e">>,
       <<"w", "f", "h">>,
       <<"t", "e", "l", "e", "c", "o", "m", "m", "u", "t">>,
       <<"f", "l", "e", "x", "i", "b", "l", "e", " ", "l", "o", "c", "a", "t", "i", "o", "n">>,
       <<"w", "o", "r", "k", "-", "f", "r", "o", "m", "-", "h", "o", "m", "e">>,
       <<"r", "e", "m", "o", "t", "e", " ", "o", "p", "t", "i", "o", "n", "a", "l">>,
       <<"h", "y", "b", "r", "i", "d", " ", "o", "p", "t", "i", "o", "n", "a", "l">>,
       <<"r", "e", "m", "o", "t", "e", " ", "e", "l", "i", "g", "i", "b", "l", "e">>,
       <<"r", "e", "m", "o", "t", "e", " ", "f", "i", "r", "s", "t">>,
       <<"r", "e", "m", "o", "t", "e", "-", "f", "i", "r", "s", "t">>,
       <<"r", "e", "m", "o", "t", "e", "/", "h", "y", "b", "r", "i", "d">>,
       <<"a", "n", "y", "w", "h", "e", "r", "e">> >>

\* the alternatives of 'Google|Microsoft|Amazon|Apple|Meta|IBM|Intel'
major_companies ==
    << <<"G", "o", "o", "g", "l", "e">>,
       <<"M", "i", "c", "r", "o", "s", "o", "f", "t">>,
       <<"A", "m", "a", "z", "o", "n">>,
       <<"A", "p", "p", "l", "e">>,
       <<"M", "e", "t", "a">>,
       <<"I", "B", "M">>,
       <<"I", "n", "t", "e", "l">> >>

\* the keyword list of write_job_to_file
work_type_keywords ==
    << <<"r", "e", "m", "o", "t", "e">>,
       <<"h", "y", "b", "r", "i", "d">>,
       <<"v", "i", "r", "t", "u", "a", "l">>,
       <<"w", "o", "r", "k", " ", "f", "r", "o", "m", " ", "h", "o", "m", "e">> >>

hourly ==
    <<"h", "o", "u", "r", "l", "y">>

daily ==
    <<"d", "a", "i", "l", "y">>

weekly ==
    <<"w", "e", "e", "k", "l", "y">>

monthly ==
    <<"m", "o", "n", "t", "h", "l", "y">>

yearly ==
    <<"y", "e", "a", "r", "l", "y">>

hourly_threshold ==
    25

yearly_threshold ==
    52000

monthly_threshold ==
    4300

max_amount_threshold ==
    52000

batch_size ==
    3

preview_length ==
    200

(***************************************************************************)
(* filter_jobs: the two boolean masks, row by row.                         *)
(***************************************************************************)
\* StrContains with case=True: the search no longer ignores case
StrContainsCaseSensitive(cell, alternatives) ==
    /\ NotNa(cell)
    /\ \E n \in DOMAIN alternatives : Contains(Val(cell), alternatives[n])

\* Series.str.contains('|'.join(alternatives), case=False, na=False) on one
\* cell: a regex search for any alternative, ignoring case; a missing cell
\* gives na, here False.  No alternative holds a regex metacharacter.
StrContains(cell, alternatives) ==
    /\ NotNa(cell)
    /\ LET text == LowerStr(Val(cell))
       IN  \E n \in DOMAIN alternatives : Contains(text, LowerStr(alternatives[n]))

\* (jobs_df['is_remote'] == True) on one cell: a missing cell compares False
IsTrue(cell) ==
    /\ NotNa(cell)
    /\ Val(cell) = TRUE

\* (column >= bound) on one cell: a missing cell compares False
AtLeast(cell, bound) ==
    /\ NotNa(cell)
    /\ Val(cell) >= bound

\* (jobs_df['interval'] == literal) on one cell
IntervalIs(cell, literal) ==
    /\ NotNa(cell)
    /\ Val(cell) = literal

is_remote_mask(job) ==
    \/ IsTrue(job.is_remote)
    \/ StrContains(job.location, remote_keywords)
    \/ StrContains(job.title, remote_keywords)
    \/ StrContains(job.description, remote_keywords)

\* min_amount_clauses with the interval tests dropped
min_amount_any_interval(job) ==
    AtLeast(job.min_amount, hourly_threshold)

\* the three interval-specific clauses on min_amount
min_amount_clauses(job) ==
    \/ IntervalIs(job.interval, hourly) /\ AtLeast(job.min_amount, hourly_threshold)
    \/ IntervalIs(job.interval, yearly) /\ AtLeast(job.min_amount, yearly_threshold)
    \/ IntervalIs(job.interval, monthly) /\ AtLeast(job.min_amount, monthly_threshold)

max_amount_clause(job) ==
    NotNa(job.max_amount) /\ AtLeast(job.max_amount, max_amount_threshold)

major_company_clause(job) ==
    StrContains(job.company, major_companies)

\* salary_mask without the clause for major companies
salary_mask_pay_only(job) ==
    \/ min_amount_clauses(job)
    \/ max_amount_clause(job)

salary_mask(job) ==
    \/ min_amount_clauses(job)
    \/ max_amount_clause(job)
    \/ major_company_clause(job)

\* jobs_df[is_remote_mask]
remote_rows(jobs_df) ==
    SelectSeq(jobs_df, is_remote_mask)

\* remote_jobs[salary_mask]
salary_rows(rows) ==
    SelectSeq(rows, salary_mask)

(***************************************************************************)
(* write_job_to_file: the lines of one job block.  A line is a record of   *)
(* its label k and the value v printed after it.                           *)
(***************************************************************************)
Line(k, v) ==
    [k |-> k, v |-> v]

\* the three f.write calls that precede the salary section
head_lines(job) ==
    << Line("Title", job.title),
       Line("Company", job.company),
       Line("Location", job.location) >>

\* job.get('interval', '').lower(): the key is a column of the row, so get
\* returns the cell; a missing cell is None (or NaN), which has no lower()
interval_lower_raises(job) ==
    ~NotNa(job.interval)

salary_lines(job) ==
    IF NotNa(job.min_amount) \/ NotNa(job.max_amount)
    THEN << Line("Salary",
                 << IF NotNa(job.min_amount) THEN job.min_amount ELSE <<"Salary">>,
                    job.max_amount,
                    LowerStr(Val(job.interval)) >>) >>
    ELSE <<>>

remote_mentions(desc) ==
    SelectSeq(work_type_keywords, LAMBDA keyword : Contains(LowerStr(desc), keyword))

description_lines(job) ==
    IF NotNa(job.description) /\ Val(job.description) # <<>>
    THEN (IF remote_mentions(Val(job.description)) # <<>>
          THEN << Line("Work Type", remote_mentions(Val(job.description))) >>
          ELSE <<>>)
         \o << Line("Description Preview", Prefix(Val(job.description), preview_length)) >>
    ELSE <<>>

tail_lines(job) ==
    << Line("Apply", job.job_url),
       Line("Posted", job.date_posted),
       Line("rule", <<>>) >>

\* what one call appends to the file when it returns
write_job_to_file(job) ==
    head_lines(job) \o salary_lines(job) \o description_lines(job) \o tail_lines(job)

(***************************************************************************)
(* The output file: open(output_file, 'w') and open(output_file, 'a').     *)
(***************************************************************************)
\* open_write with mode 'a': the earlier content stays
open_write_keeping(file) ==
    file

open_write(file) ==
    <<>>

\* open_append with mode 'w': the earlier content is lost
open_append_clearing(file) ==
    <<>>

open_append(file) ==
    file

banner_lines ==
    << Line("banner", <<>>), Line("Search started at", <<>>) >>

summary_lines(n_companies, n_matches) ==
    << Line("Search Complete", <<>>),
       Line("Total companies searched", <<n_companies>>),
       Line("Total matching jobs found", <<n_matches>>),
       Line("Search completed at", <<>>) >>

company_header(company) ==
    << Line("company", <<company>>) >>

\* the Apply lines of the file, in order: the posting URLs it records
RecordedUrls(file) ==
    SelectSeq(file, LAMBDA l : l.k = "Apply")

(***************************************************************************)
(* Bounds of the model and the inputs drawn from them.                     *)
(***************************************************************************)
\* how many times main is started in one behaviour
MaxRuns ==
    2

\* how many listings the provider returns for one query
MaxJobs ==
    1

TitleDataIntern ==
    <<"D", "a", "t", "a", " ", "I", "n", "t", "e", "r", "n">>

TitleInternationalCorp ==
    <<"I", "n", "t", "e", "r", "n", "a", "t", "i", "o", "n", "a", "l", " ", "C", "o", "r", "p">>

TitleWfhInternship ==
    <<"W", "F", "H", " ", "I", "n", "t", "e", "r", "n", "s", "h", "i", "p">>

CompanyGoogle ==
    <<"G", "o", "o", "g", "l", "e">>

CompanyAcme ==
    <<"A", "c", "m", "e">>

LocationAustinHybrid ==
    <<"A", "u", "s", "t", "i", "n", ",", " ", "T", "X", " ", "(", "H", "y", "b", "r", "i", "d", ")">>

LocationAustin ==
    <<"A", "u", "s", "t", "i", "n", ",", " ", "T", "X">>

DescWorkFromHome ==
    <<"W", "o", "r", "k", " ", "f", "r", "o", "m", " ", "H", "o", "m", "e">>

DescOnSite ==
    <<"O", "n", " ", "s", "i", "t", "e">>

Intervals ==
    {hourly, daily, weekly, monthly, yearly}

Opt(S) ==
    {None} \cup {Some(v) : v \in S}

\* the listings the filter is exercised on: every combination of the fields
FilterListings ==
    [title       : Opt({TitleDataIntern, TitleInternationalCorp, TitleWfhInternship}),
     company     : Opt({CompanyGoogle, CompanyAcme}),
     location    : Opt({LocationAustinHybrid, LocationAustin}),
     description : Opt({DescWorkFromHome, DescOnSite}),
     is_remote   : Opt({TRUE, FALSE}),
     min_amount  : Opt({20, 30, 240, 1200, 4300, 62400}),
     max_amount  : Opt({51999, 52000}),
     interval    : Opt(Intervals),
     job_url     : {"u1"},
     date_posted : {"d1"}]

\* an accepted listing with every pay field present
ListingPaid ==
    [title |-> Some(TitleDataIntern), company |-> Some(CompanyAcme),
     location |-> Some(LocationAustinHybrid), description |-> Some(DescWorkFromHome),
     is_remote |-> Some(TRUE), min_amount |-> Some(30), max_amount |-> None,
     interval |-> Some(hourly), job_url |-> "u1", date_posted |-> "d1"]

\* a listing the filter rejects
ListingOnSite ==
    [title |-> Some(TitleDataIntern), company |-> Some(CompanyAcme),
     location |-> Some(LocationAustin), description |-> Some(DescOnSite),
     is_remote |-> Some(FALSE), min_amount |-> Some(30), max_amount |-> None,
     interval |-> Some(hourly), job_url |-> "u2", date_posted |-> "d1"]

\* a listing of a major company with no pay data at all
ListingNoPay ==
    [title |-> Some(TitleWfhInternship), company |-> Some(CompanyGoogle),
     location |-> None, description |-> None,
     is_remote |-> None, min_amount |-> None, max_amount |-> None,
     interval |-> None, job_url |-> "u3", date_posted |-> "d1"]

ScanListings ==
    {ListingPaid, ListingOnSite, ListingNoPay}

ScanCompanies ==
    <<"Acme", "Google", "Initech", "Meta">>

SeqsUpTo(S, n) ==
    UNION {[1..m -> S] : m \in 0..n}

\* what scrape_jobs does for one query: it raises, or returns a data frame
Responses(pool) ==
    {[ok |-> FALSE, rows |-> <<>>]}
        \cup {[ok |-> TRUE, rows |-> r] : r \in SeqsUpTo(pool, MaxJobs)}

(***************************************************************************)
(* State.                                                                  *)
(***************************************************************************)
VARIABLES
    companies,      \* load_companies(): the employer names, in file order
    provider,       \* scrape_jobs: employer position -> its response
    out,            \* remote_internships.txt, as a sequence of lines
    pc,             \* where main is
    runs,           \* how many times main was started
    i,              \* main: the batch offset of range(0, len, batch_size)
    c,              \* main: position in companies of the employer at hand
    j,              \* main: position in filtered_jobs of the row at hand
    jobs,           \* main: what search_company_jobs returned
    remote_jobs,    \* filter_jobs: jobs_df[is_remote_mask]
    filtered_jobs,  \* main: what filter_jobs returned
    total_matches,  \* main: the counter written into the summary
    queries,        \* history: the employer positions queried in this run
    ended,          \* history: how each earlier run ended, and with how many rows
    md_lines,       \* process_readme_to_csv: md_text.splitlines()
    table_lines,    \* process_readme_to_csv: what extract_table_lines returned
    headers,        \* parse_markdown_table: the cells of the header line
    rows,           \* parse_markdown_table: the rows kept so far
    line_no,        \* parse_markdown_table: position in table_lines of the line at hand
    tpc             \* where process_readme_to_csv is

vars ==
    <<companies, provider, out, pc, runs, i, c, j, jobs, remote_jobs,
      filtered_jobs, total_matches, queries, ended,
      md_lines, table_lines, headers, rows, line_no, tpc>>

\* the variables of main (internship_scraper.py)
scan_vars ==
    <<companies, provider, out, pc, runs, i, c, j, jobs, remote_jobs,
      filtered_jobs, total_matches, queries, ended>>

\* the variables of process_readme_to_csv (job_postings.py)
table_vars ==
    <<md_lines, table_lines, headers, rows, line_no, tpc>>

\* process_readme_to_csv is not running and holds nothing
TableIdle ==
    /\ md_lines = <<>>
    /\ table_lines = <<>>
    /\ headers = <<>>
    /\ rows = <<>>
    /\ line_no = 0
    /\ tpc = "idle"

Running ==
    {"batch", "company", "write", "sleep"}

Stopped ==
    {"idle", "done", "crashed", "interrupted"}

TypeOK ==
    /\ pc \in Running \cup Stopped
    /\ runs \in 0..MaxRuns
    /\ i \in Nat /\ c \in Nat /\ j \in Nat /\ total_matches \in Nat

InitLocals ==
    /\ out = <<>>
    /\ pc = "idle"
    /\ i = 0 /\ c = 0 /\ j = 0
    /\ jobs = <<>> /\ remote_jobs = <<>> /\ filtered_jobs = <<>>
    /\ total_matches = 0
    /\ queries = <<>>
    /\ ended = <<>>

\* the scan over a list of employers, two batches long
Init ==
    /\ companies = ScanCompanies
    /\ provider \in [1..Len(ScanCompanies) -> Responses(ScanListings)]
    /\ runs = 0
    /\ InitLocals
    /\ TableIdle

\* one employer whose query returns one listing, of any shape
InitFilter ==
    /\ companies = <<"Acme">>
    /\ provider \in {[n \in 1..1 |-> [ok |-> TRUE, rows |-> <<job>>]] : job \in FilterListings}
    /\ runs = MaxRuns - 1
    /\ InitLocals
    /\ TableIdle

(***************************************************************************)
(* search_company_jobs and filter_jobs as main calls them.                 *)
(***************************************************************************)
\* try: scrape_jobs(...) ... return jobs; except Exception: return pd.DataFrame()
search_company_jobs(response) ==
    IF response.ok THEN response.rows ELSE <<>>

\* filter_jobs returning the frame it was given instead of filtered_jobs
filter_jobs_unfiltered(jobs_df) ==
    jobs_df

filter_jobs(jobs_df) ==
    IF jobs_df = <<>> THEN jobs_df ELSE salary_rows(remote_rows(jobs_df))

\* min(i + batch_size, len(companies)): the last position of the batch at i
BatchEnd(offset) ==
    IF offset + batch_size < Len(companies) THEN offset + batch_size ELSE Len(companies)

\* the record kept of a run that stops with the file as given
EndOfRun(how, file) ==
    [how |-> how, rows |-> Len(RecordedUrls(file))]

(***************************************************************************)
(* main, one action per position.                                          *)
(***************************************************************************)
\* main up to the first batch: load the employers, clear the file, write the banner
StartRun ==
    /\ pc \in Stopped
    /\ runs < MaxRuns
    /\ runs' = runs + 1
    /\ queries' = <<>>
    /\ i' = 0 /\ c' = 0 /\ j' = 0
    /\ jobs' = <<>> /\ remote_jobs' = <<>> /\ filtered_jobs' = <<>>
    /\ total_matches' = 0
    /\ IF companies = <<>>
       THEN /\ pc' = "done"
            /\ out' = out
            /\ ended' = Append(ended, EndOfRun("done", out))
       ELSE /\ pc' = "batch"
            /\ out' = open_write(out) \o banner_lines
            /\ ended' = ended
    /\ UNCHANGED <<companies, provider>>

\* for i in range(0, len(companies), batch_size): open the file to append
BeginBatch ==
    /\ pc = "batch"
    /\ i < Len(companies)
    /\ c' = i + 1
    /\ out' = open_append(out)
    /\ pc' = "company"
    /\ UNCHANGED <<companies, provider, runs, i, j, jobs, remote_jobs,
                   filtered_jobs, total_matches, queries, ended>>

\* for company in batch: query the provider, filter, write the company header
SearchCompany ==
    /\ pc = "company"
    /\ LET found == search_company_jobs(provider[c])
           kept  == filter_jobs(found)
       IN  /\ jobs' = found
           /\ queries' = Append(queries, c)
           /\ IF found # <<>>
              THEN /\ remote_jobs' = remote_rows(found)
                   /\ filtered_jobs' = kept
                   /\ IF kept # <<>>
                      THEN /\ out' = out \o company_header(companies[c])
                           /\ j' = 1
                           /\ pc' = "write"
                      ELSE /\ pc' = "sleep"
                           /\ UNCHANGED <<out, j>>
              ELSE /\ pc' = "sleep"
                   /\ UNCHANGED <<out, j, remote_jobs, filtered_jobs>>
    /\ UNCHANGED <<companies, provider, runs, i, c, total_matches, ended>>

\* for _, job in filtered_jobs.iterrows(): write_job_to_file(job, f); total_matches += 1
\* An exception of write_job_to_file leaves main through the with block, which
\* closes the file with the lines written so far.
WriteJob ==
    /\ pc = "write"
    /\ LET job == filtered_jobs[j]
       IN  IF interval_lower_raises(job)
           THEN /\ out' = out \o head_lines(job)
                /\ pc' = "crashed"
                /\ ended' = Append(ended, EndOfRun("crashed", out'))
                /\ UNCHANGED <<j, total_matches>>
           ELSE /\ out' = out \o write_job_to_file(job)
                /\ total_matches' = total_matches + 1
                /\ j' = j + 1
                /\ pc' = IF j < Len(filtered_jobs) THEN "write" ELSE "sleep"
                /\ ended' = ended
    /\ UNCHANGED <<companies, provider, runs, i, c, jobs, remote_jobs,
                   filtered_jobs, queries>>

\* time.sleep(2), then the next employer of the batch or the next batch
PauseCompany ==
    /\ pc = "sleep"
    /\ IF c < BatchEnd(i)
       THEN /\ c' = c + 1
            /\ pc' = "company"
            /\ i' = i
       ELSE /\ i' = i + batch_size
            /\ pc' = "batch"
            /\ c' = c
    /\ UNCHANGED <<companies, provider, out, runs, j, jobs, remote_jobs,
                   filtered_jobs, total_matches, queries, ended>>

\* after the last batch: append the summary
WriteSummary ==
    /\ pc = "batch"
    /\ i >= Len(companies)
    /\ out' = open_append(out) \o summary_lines(Len(companies), total_matches)
    /\ pc' = "done"
    /\ ended' = Append(ended, EndOfRun("done", out'))
    /\ UNCHANGED <<companies, provider, runs, i, c, j, jobs, remote_jobs,
                   filtered_jobs, total_matches, queries>>

\* the process is interrupted between two steps of a run; the file stays as it is
Interrupt ==
    /\ pc \in Running
    /\ pc' = "interrupted"
    /\ ended' = Append(ended, EndOfRun("interrupted", out))
    /\ UNCHANGED <<companies, provider, out, runs, i, c, j, jobs, remote_jobs,
                   filtered_jobs, total_matches, queries>>

Next ==
    \/ StartRun /\ UNCHANGED table_vars
    \/ BeginBatch /\ UNCHANGED table_vars
    \/ SearchCompany /\ UNCHANGED table_vars
    \/ WriteJob /\ UNCHANGED table_vars
    \/ PauseCompany /\ UNCHANGED table_vars
    \/ WriteSummary /\ UNCHANGED table_vars
    \/ Interrupt /\ UNCHANGED table_vars

Spec ==
    Init /\ [][Next]_vars

SpecFilter ==
    InitFilter /\ [][Next]_vars

(***************************************************************************)
(* src/job_postings.py: extract_table_lines and parse_markdown_table, as   *)
(* process_readme_to_csv calls them.                                       *)
(***************************************************************************)
\* how many lines the markdown file has
MaxLines ==
    4

LineHeader ==
    <<"|", " ", "C", "o", "m", "p", "a", "n", "y", " ", "|", " ", "R", "o", "l", "e", " ", "|">>

LineDivider ==
    <<"|", "-", "-", "-", "|", "-", "-", "-", "|">>

LineRow ==
    <<" ", " ", "|", " ", "A", "c", "m", "e", " ", "|", " ", "I", "n", "t", "e", "r", "n", " ", "|">>

LineRowEmptyCell ==
    <<"|", " ", "A", "c", "m", "e", " ", "|", " ", " ", "|">>

LineRowThreeCells ==
    <<"|", " ", "A", "c", "m", "e", " ", "|", " ", "I", "n", "t", "e", "r", "n", " ", "|", " ", "N", "Y", "C", " ", "|">>

LineProse ==
    <<"O", "p", "e", "n", " ", "r", "o", "l", "e", "s">>

LineBlank ==
    <<" ">>

\* the lines a README is made of
MarkdownLines ==
    {LineHeader, LineDivider, LineRow, LineRowEmptyCell, LineRowThreeCells,
     LineProse, LineBlank}

\* the characters str.strip() removes, among those of the lines above
Whitespace ==
    {" ", "\t"}

\* str.lstrip()
LStrip(s) ==
    IF \A n \in DOMAIN s : s[n] \in Whitespace
    THEN <<>>
    ELSE SubSeq(s, CHOOSE n \in DOMAIN s :
                       s[n] \notin Whitespace /\ \A m \in 1..(n - 1) : s[m] \in Whitespace,
                Len(s))

\* str.strip()
Strip(s) ==
    LET left == LStrip(s)
    IN  IF left = <<>>
        THEN <<>>
        ELSE SubSeq(left, 1, CHOOSE n \in DOMAIN left :
                                 left[n] \notin Whitespace
                                   /\ \A m \in (n + 1)..Len(left) : left[m] \in Whitespace)

\* str.split(sep) with a one-character separator
RECURSIVE Split(_, _)
Split(s, sep) ==
    IF \A n \in DOMAIN s : s[n] # sep
    THEN <<s>>
    ELSE LET p == CHOOSE n \in DOMAIN s : s[n] = sep /\ \A m \in 1..(n - 1) : s[m] # sep
         IN  <<SubSeq(s, 1, p - 1)>> \o Split(SubSeq(s, p + 1, Len(s)), sep)

\* [cell.strip() for cell in line.split('|') if cell.strip()]
stripped_cells(line) ==
    LET pieces == Split(line, "|")
    IN  SelectSeq([n \in DOMAIN pieces |-> Strip(pieces[n])], LAMBDA cell : cell # <<>>)

\* line.lstrip().startswith('|')
is_table_line(line) ==
    LET left == LStrip(line)
    IN  left # <<>> /\ left[1] = "|"

extract_table_lines(lines) ==
    SelectSeq(lines, is_table_line)

\* row_kept without the comparison: every line becomes a row
row_kept_always(cells, header_cells) ==
    TRUE

\* the negation of `len(cells) != len(headers)`
row_kept(cells, header_cells) ==
    Len(cells) = Len(header_cells)

\* process_readme_to_csv reads a file of up to MaxLines lines
InitTable ==
    /\ companies = <<>>
    /\ provider = <<>>
    /\ runs = 0
    /\ InitLocals
    /\ md_lines \in SeqsUpTo(MarkdownLines, MaxLines)
    /\ table_lines = <<>>
    /\ headers = <<>>
    /\ rows = <<>>
    /\ line_no = 0
    /\ tpc = "read"

\* table_lines = extract_table_lines(md_text); return if there is none
ExtractTable ==
    /\ tpc = "read"
    /\ table_lines' = extract_table_lines(md_lines)
    /\ tpc' = IF table_lines' = <<>> THEN "no_table" ELSE "parse"
    /\ UNCHANGED <<md_lines, headers, rows, line_no>>
    /\ UNCHANGED scan_vars

\* parse_markdown_table up to its loop: ValueError under two lines, else the
\* header cells, and data_lines = table_lines[2:]
ParseHeader ==
    /\ tpc = "parse"
    /\ IF Len(table_lines) < 2
       THEN /\ tpc' = "value_error"
            /\ UNCHANGED <<headers, rows, line_no>>
       ELSE /\ headers' = stripped_cells(table_lines[1])
            /\ rows' = <<>>
            /\ line_no' = 3
            /\ tpc' = "rows"
    /\ UNCHANGED <<md_lines, table_lines>>
    /\ UNCHANGED scan_vars

\* for line in data_lines: skip a blank line or one with another cell count
ParseLine ==
    /\ tpc = "rows"
    /\ line_no <= Len(table_lines)
    /\ LET line  == table_lines[line_no]
           cells == stripped_cells(line)
       IN  rows' = IF Strip(line) # <<>> /\ row_kept(cells, headers)
                   THEN Append(rows, cells)
                   ELSE rows
    /\ line_no' = line_no + 1
    /\ UNCHANGED <<md_lines, table_lines, headers, tpc>>
    /\ UNCHANGED scan_vars

\* return headers, rows
ParseReturn ==
    /\ tpc = "rows"
    /\ line_no > Len(table_lines)
    /\ tpc' = "returned"
    /\ UNCHANGED <<md_lines, table_lines, headers, rows, line_no>>
    /\ UNCHANGED scan_vars

NextTable ==
    \/ ExtractTable
    \/ ParseHeader
    \/ ParseLine
    \/ ParseReturn

SpecTable ==
    InitTable /\ [][NextTable]_vars

(***************************************************************************)
(* The vocabulary of the specification's JobFilter (sections 4.1 to 4.5),  *)
(* written from its text and independent of the masks above.               *)
(***************************************************************************)
WordIntern ==
    <<"i", "n", "t", "e", "r", "n">>

WordInternship ==
    <<"i", "n", "t", "e", "r", "n", "s", "h", "i", "p">>

WordInterns ==
    <<"i", "n", "t", "e", "r", "n", "s">>

\* the characters of \w
WordChars ==
    Range(Uppers) \cup Range(Lowers) \cup Range(Digits) \cup {"_"}

\* w occurs in s at offset p with no word character on either side
WholeWordAt(s, w, p) ==
    /\ MatchAt(s, w, p)
    /\ p = 0 \/ s[p] \notin WordChars
    /\ p + Len(w) = Len(s) \/ s[p + Len(w) + 1] \notin WordChars

\* 4.1 Internship Classifier
IsInternship(title) ==
    /\ title # None
    /\ LET text == LowerStr(title[1])
       IN  \E w \in {WordIntern, WordInternship, WordInterns} :
              \E p \in 0..Len(text) : WholeWordAt(text, w, p)

\* a keyword of the list occurs in the text, ignoring case
HasKeyword(text, keywords) ==
    LET folded == LowerStr(text)
    IN  \E kw \in Range(keywords) :
           LET word == LowerStr(kw)
           IN  \E p \in 0..Len(folded) : MatchAt(folded, word, p)

\* 4.2 Remote/Hybrid Classifier
IsRemoteOrHybrid(job) ==
    \/ job.is_remote = Some(TRUE)
    \/ \E cell \in {job.title, job.location, job.description} :
          cell # None /\ HasKeyword(cell[1], remote_keywords)

\* 4.3 Salary Normalizer: ten times the hours one pay interval stands for
\* (8 a day, 40 a week, 40 x 4.33 a month, 40 x 52 a year)
HoursTimesTen(interval) ==
    CASE interval = hourly  -> 10
      [] interval = daily   -> 80
      [] interval = weekly  -> 400
      [] interval = monthly -> 1732
      [] interval = yearly  -> 20800

\* filter_jobs has returned for the employer at hand
Filtered ==
    pc \in {"write", "sleep"} /\ jobs # <<>>

\* the amount the normalizer converts: min_amount, or max_amount without it
RateAmount(job) ==
    IF job.min_amount # None THEN job.min_amount ELSE job.max_amount

\* NormalizedRate(job) >= rate, the rate being 0 without interval or amount
NormalizedRateAtLeast(job, rate) ==
    IF job.interval = None \/ RateAmount(job) = None
    THEN 0 >= rate
    ELSE RateAmount(job)[1] * 10 >= rate * HoursTimesTen(job.interval[1])

\* employer matches an allowlisted employer
IsAllowlisted(job) ==
    job.company # None /\ HasKeyword(job.company[1], major_companies)

\* 4.4 Acceptance Policy, with the thresholds of the source
IsAcceptedByPolicy(job) ==
    /\ IsInternship(job.title)
    /\ IsRemoteOrHybrid(job)
    /\ \/ NormalizedRateAtLeast(job, hourly_threshold)
       \/ job.max_amount # None /\ job.max_amount[1] >= yearly_threshold
       \/ IsAllowlisted(job)

IsPrefix(s, t) ==
    Len(s) <= Len(t) /\ SubSeq(t, 1, Len(s)) = s

UrlSet(file) ==
    {l.v : l \in Range(RecordedUrls(file))}

(***************************************************************************)
(* Claims.                                                                 *)
(***************************************************************************)
\* C1: every listing the provider returned is accepted by filter_jobs if and
\* only if the acceptance policy holds of it: internship title as a whole
\* word, remote/hybrid, and rate, max_amount or allowlist.
C1_AcceptsIffPolicy ==
    Filtered => filtered_jobs = SelectSeq(jobs, IsAcceptedByPolicy)

\* C2: the rows filter_jobs classifies remote/hybrid are exactly those with a
\* true flag or a keyword in title, location or description; an absent field
\* contributes false: flag false with location 'Austin, TX (Hybrid)' is
\* classified true, all four signals absent is classified false.
C2_RemoteIsDisjunction ==
    Filtered =>
        /\ remote_jobs = SelectSeq(jobs, IsRemoteOrHybrid)
        /\ \A n \in DOMAIN jobs :
              /\ (jobs[n].is_remote = Some(FALSE)
                    /\ jobs[n].location = Some(LocationAustinHybrid))
                 => jobs[n] \in Range(remote_jobs)
              /\ (jobs[n].is_remote = None /\ jobs[n].title = None
                    /\ jobs[n].location = None /\ jobs[n].description = None)
                 => jobs[n] \notin Range(remote_jobs)

\* C2 witness: a row with flag false and no title or description is kept for
\* the hybrid keyword of its location alone.
C2_Witness ==
    /\ pc \in {"write", "sleep"}
    /\ jobs # <<>>
    /\ jobs[1].is_remote = Some(FALSE)
    /\ jobs[1].location = Some(LocationAustinHybrid)
    /\ jobs[1].title = None
    /\ jobs[1].description = None
    /\ remote_jobs = jobs

\* C3: a listing without pay interval and without max_amount, of an employer
\* that is not allowlisted, is never accepted by filter_jobs.
C3_NoPayDataRejected ==
    Filtered => \A n \in DOMAIN jobs :
        (jobs[n].interval = None /\ jobs[n].max_amount = None /\ ~IsAllowlisted(jobs[n]))
        => jobs[n] \notin Range(filtered_jobs)

\* C3 witness: such a listing, remote and with a min_amount far above every
\* threshold, has gone through filter_jobs and was rejected.
C3_Witness ==
    /\ pc = "sleep"
    /\ jobs # <<>>
    /\ jobs[1].interval = None
    /\ jobs[1].max_amount = None
    /\ jobs[1].min_amount = Some(62400)
    /\ jobs[1].company = Some(CompanyAcme)
    /\ jobs[1].is_remote = Some(TRUE)
    /\ remote_jobs = jobs
    /\ filtered_jobs = <<>>

\* C4: a remote/hybrid internship listing of an allowlisted employer is
\* accepted by filter_jobs whatever its pay fields are; with min_amount 20,
\* interval hourly and employer Google the allowlist clause is the only
\* clause of the salary disjunction that is true.
C4_AllowlistAccepts ==
    Filtered => \A n \in DOMAIN jobs :
        /\ (IsInternship(jobs[n].title) /\ IsRemoteOrHybrid(jobs[n]) /\ IsAllowlisted(jobs[n]))
           => jobs[n] \in Range(filtered_jobs)
        /\ (IsRemoteOrHybrid(jobs[n])
              /\ jobs[n].min_amount = Some(20) /\ jobs[n].interval = Some(hourly)
              /\ jobs[n].company = Some(CompanyGoogle)
              /\ jobs[n].max_amount \in {None, Some(51999)})
           => /\ jobs[n] \in Range(filtered_jobs)
              /\ ~min_amount_clauses(jobs[n])
              /\ ~max_amount_clause(jobs[n])
              /\ major_company_clause(jobs[n])

\* C4 witness: the Google internship at 20 an hour, without max_amount, is
\* accepted and about to be written.
C4_Witness ==
    /\ pc = "write"
    /\ IsInternship(jobs[1].title)
    /\ jobs[1].company = Some(CompanyGoogle)
    /\ jobs[1].max_amount = None
    /\ jobs[1].min_amount = Some(20)
    /\ jobs[1].interval = Some(hourly)
    /\ filtered_jobs = jobs

\* C5: the minimum-rate clause of the salary test is the comparison of the
\* hourly-equivalent rate with one minimum hourly rate, for all five pay
\* intervals: where neither the max_amount clause nor the allowlist decides,
\* a remote/hybrid listing is accepted if and only if its hourly-equivalent
\* rate reaches the hourly threshold.
C5_OneHourlyThreshold ==
    Filtered => \A n \in DOMAIN jobs :
        (/\ IsRemoteOrHybrid(jobs[n])
         /\ ~IsAllowlisted(jobs[n])
         /\ ~(jobs[n].max_amount # None /\ jobs[n].max_amount[1] >= max_amount_threshold))
        => (jobs[n] \in Range(filtered_jobs)
              <=> NormalizedRateAtLeast(jobs[n], hourly_threshold))

\* C10: no listing makes the run raise because of absent fields; an accepted
\* listing is written by write_job_to_file without an exception.
C10_NoRaiseOnAbsentFields ==
    pc # "crashed"

\* the employers queried in this run whose query raised
FailedQueries ==
    {k \in Range(queries) : ~provider[k].ok}

\* C6: no posting URL is recorded more than once in the output, also when the
\* provider returns the same posting for two employers.
C6_NoUrlTwice ==
    LET urls == RecordedUrls(out)
    IN  \A a, b \in DOMAIN urls : a # b => urls[a].v # urls[b].v

C8_RerunSameRowCount ==
    \A r \in DOMAIN ended :
        (r > 1 /\ ended[r - 1].how = "done" /\ ended[r].how = "done")
        => ended[r].rows = ended[r - 1].rows

\* C8 witness: the second of two completed runs has ended, and each left at
\* least one job entry.
C8_Witness ==
    /\ pc = "done"
    /\ Len(ended) = 2
    /\ ended[1].how = "done"
    /\ ended[2].how = "done"
    /\ ended[1].rows > 0
    /\ ended[2].rows > 0

\* C9: once the query of an employer has raised, nothing is written for that
\* employer, it is queried once, the employers are queried in list order, one
\* query each, the run does not abort, and a finished run has queried every
\* employer and written a summary that counts them all.
C9_FailureIsolated ==
    FailedQueries # {} =>
        /\ \A k \in FailedQueries :
              /\ \A l \in Range(out) : l.k = "company" => l.v # <<companies[k]>>
              /\ Cardinality({n \in DOMAIN queries : queries[n] = k}) = 1
        /\ queries = [n \in 1..Len(queries) |-> n]
        /\ pc # "crashed"
        /\ pc = "done" =>
              /\ Len(queries) = Len(companies)
              /\ \E l \in Range(out) :
                    l.k = "Total companies searched" /\ l.v = <<Len(companies)>>

\* the rows of employer k that pass both masks, from the provider's response
AcceptedOf(k) ==
    IF provider[k].ok
    THEN SelectSeq(provider[k].rows, LAMBDA job : is_remote_mask(job) /\ salary_mask(job))
    ELSE <<>>

\* the accepted rows of employers 1..k, in the order main meets them
RECURSIVE AcceptedUpTo(_)
AcceptedUpTo(k) ==
    IF k = 0 THEN <<>> ELSE AcceptedUpTo(k - 1) \o AcceptedOf(k)

\* the employers among 1..k with at least one accepted row, in order
RECURSIVE HeadersUpTo(_)
HeadersUpTo(k) ==
    IF k = 0 THEN <<>>
    ELSE HeadersUpTo(k - 1) \o (IF AcceptedOf(k) # <<>> THEN <<companies[k]>> ELSE <<>>)

\* the values of the lines of the file that carry label k, in order
ValuesOf(file, k) ==
    LET picked == SelectSeq(file, LAMBDA l : l.k = k)
    IN  [n \in 1..Len(picked) |-> picked[n].v]

\* C11: when main finishes, every employer was queried once and in order, the
\* job entries of the output are exactly the listings filter_jobs accepted,
\* one entry each and in order, none for a rejected listing and no company
\* header for an employer without an accepted listing, and the summary's
\* 'Total matching jobs found' is the number of job entries written.
C11_EntriesAreAcceptedListings ==
    pc = "done" =>
        LET accepted == AcceptedUpTo(Len(companies))
        IN  /\ queries = [n \in 1..Len(companies) |-> n]
            /\ ValuesOf(out, "Apply") = [n \in 1..Len(accepted) |-> accepted[n].job_url]
            /\ ValuesOf(out, "Title") = [n \in 1..Len(accepted) |-> accepted[n].title]
            /\ Len(ValuesOf(out, "rule")) = Len(accepted)
            /\ ValuesOf(out, "company") = [n \in 1..Len(HeadersUpTo(Len(companies))) |->
                                              <<HeadersUpTo(Len(companies))[n]>>]
            /\ total_matches = Len(accepted)
            /\ ValuesOf(out, "Total matching jobs found") = << <<Len(ValuesOf(out, "Apply"))>> >>

\* C11 witness: a finished run in which one employer had an accepted listing
\* that was written, one a rejected listing, and one an empty or failed result.
C11_Witness ==
    /\ pc = "done"
    /\ total_matches >= 1
    /\ RecordedUrls(out) # <<>>
    /\ \E k \in DOMAIN provider : provider[k].rows # <<>> /\ AcceptedOf(k) = <<>>
    /\ \E k \in DOMAIN provider : provider[k].rows = <<>>

\* the number of non-empty cells of a line: the positions that hold the first
\* character, other than white space, of a stretch between two bars
CellCount(line) ==
    Cardinality({p \in DOMAIN line :
        /\ line[p] \notin Whitespace \cup {"|"}
        /\ \A q \in 1..(p - 1) :
              (\A r \in q..(p - 1) : line[r] # "|") => line[q] \in Whitespace})

\* the lines after the second whose cell count is the header's
KeptLines ==
    SelectSeq(SubSeq(table_lines, 3, Len(table_lines)),
              LAMBDA line : CellCount(line) = CellCount(table_lines[1]))

\* C12: parse_markdown_table returns only for two table lines or more and
\* raises ValueError for fewer; every row it returns has as many cells as the
\* header line has non-empty cells, none of them empty; the second line is
\* never a row; the rows are the later lines with the header's cell count,
\* each with its own cells, in order.
C12_RowsMatchHeaderWidth ==
    /\ tpc = "value_error" => Len(table_lines) < 2
    /\ tpc \in {"rows", "returned"} =>
          /\ Len(table_lines) >= 2
          /\ Len(headers) = CellCount(table_lines[1])
          /\ \A n \in DOMAIN rows :
                /\ Len(rows[n]) = CellCount(table_lines[1])
                /\ \A m \in DOMAIN rows[n] : rows[n][m] # <<>>
    /\ tpc = "returned" =>
          /\ Len(rows) = Len(KeptLines)
          /\ \A n \in DOMAIN rows : rows[n] = stripped_cells(KeptLines[n])

\* C12 witness: a table whose second line is a data row and whose later lines
\* are a row with one empty cell and a full row; only the full row is returned.
C12_Witness ==
    /\ tpc = "returned"
    /\ table_lines = <<LineHeader, LineRow, LineRowEmptyCell, LineRow>>
    /\ Len(headers) = 2
    /\ Len(rows) = 1

=============================================================================
